---- MODULE Spec2Model ----
(***************************************************************************)
(* State-machine model of the attendance bot:                              *)
(*   - the webhook bot of api/telegram.js (Vercel KV sets, menu presets,   *)
(*     keyword fan-out),                                                   *)
(*   - the scheduled class-reminder handler of api/class-reminders.js,     *)
(*   - the long-polling bot of index.js with the SQLite table of db.js.    *)
(* One action is one handler, or one step of a handler between two awaits  *)
(* that touch shared state (a KV call, a gateway call, the pacing timer).  *)
(***************************************************************************)
EXTENDS Integers, Sequences, FiniteSets, TLC

\* ------------------------------------------------------------------ bounds
\* Number of distinct Telegram users in the model.
NUsers == 2

\* Numeric Telegram user ids (some with more than one decimal digit).
UserIds == {6 * n : n \in 1..NUsers}

\* ------------------------------------------------------- program constants
SUBS_ATTENDANCE_KEY == "subs:attendance"
SUBS_CLASS_KEY == "subs:class"
Keys == {SUBS_ATTENDANCE_KEY, SUBS_CLASS_KEY}

CLASS_REMINDER_HOUR_GMT5 == 18
CLASS_REMINDER_MINUTE_GMT5 == 25
\* Weekdays (getUTCDay after the +5h offset) that have a class: 1=Mon .. 4=Thu.
CLASS_SCHEDULE_BY_GMT5_DAY == [d \in 1..4 |->
    CASE d = 1 -> "Database Design Concepts"
      [] d = 2 -> "Computer Systems"
      [] d = 3 -> "Business Skills for E- Commerce"
      [] d = 4 -> "Website Design"]

ChatTypes == {"private", "group", "supergroup"}
GroupTypes == {"group", "supergroup"}

\* What the gateway answers to one sendMessage: delivered, rejected with error
\* code 403, or failed with any other error.
SendOutcomes == {"ok", "403", "err"}

\* --------------------------------------------------------------- conversions
\* String(userId): the decimal digits of a positive integer, as a sequence.
RECURSIVE StringOf(_)
StringOf(n) ==
    IF n < 10 THEN <<n>> ELSE Append(StringOf(n \div 10), n % 10)

\* Number(id): the integer a digit sequence denotes.
RECURSIVE NumberOf(_)
NumberOf(s) ==
    IF Len(s) = 0 THEN 0
    ELSE 10 * NumberOf(SubSeq(s, 1, Len(s) - 1)) + s[Len(s)]

\* All the orders in which the members of a finite set can be enumerated.
RECURSIVE Orders(_)
Orders(S) ==
    IF S = {} THEN {<<>>}
    ELSE UNION {{<<x>> \o rest : rest \in Orders(S \ {x})} : x \in S}

Range(s) == {s[i] : i \in 1..Len(s)}

\* ------------------------------------------------------------- the KV store
\* kv.sadd / kv.srem / kv.sismember / kv.smembers on a Redis set of strings.
\* A call that fails (ok = FALSE) rejects and has no effect on the set.

\* setSub(key, userId, enabled): sadd or srem, a rejected call is swallowed.
SetSub(store, key, userId, enabled, ok) ==
    IF ~ok THEN store
    ELSE IF enabled
         THEN [store EXCEPT ![key] = @ \cup {StringOf(userId)}]
         ELSE [store EXCEPT ![key] = @ \ {StringOf(userId)}]

\* isSub(key, userId): sismember === 1, FALSE when the call is rejected.
IsSub(store, key, userId, ok) ==
    ok /\ StringOf(userId) \in store[key]

\* smembers(key).map(Number): the members in any order.
Smembers(store, key) ==
    {[i \in 1..Len(o) |-> NumberOf(o[i])] : o \in Orders(store[key])}

\* listSubs(key): the possible results, [] when the call is rejected.
ListSubs(store, key, ok) ==
    IF ok THEN Smembers(store, key) ELSE {<<>>}

\* A removal that covers the attendance list only.
AllLists_AttendanceOnly == {SUBS_ATTENDANCE_KEY}

\* removeFromAllLists: the lists a removal is issued on.
AllLists == {SUBS_ATTENDANCE_KEY, SUBS_CLASS_KEY}

\* -------------------------------------------------------- keyword detector
\* A text is a sequence of one-character strings.
LowerLetters ==
    << "a", "b", "c", "d", "e", "f", "g", "h", "i", "j", "k", "l", "m",
       "n", "o", "p", "q", "r", "s", "t", "u", "v", "w", "x", "y", "z" >>
UpperLetters ==
    << "A", "B", "C", "D", "E", "F", "G", "H", "I", "J", "K", "L", "M",
       "N", "O", "P", "Q", "R", "S", "T", "U", "V", "W", "X", "Y", "Z" >>
Digits == {"0", "1", "2", "3", "4", "5", "6", "7", "8", "9"}
Whitespace == {" ", "\n", "\t"}

\* The /i flag: letters compare by their lower-case form.
Lower(c) ==
    IF \E k \in 1..Len(UpperLetters) : UpperLetters[k] = c
    THEN LowerLetters[CHOOSE k \in 1..Len(UpperLetters) : UpperLetters[k] = c]
    ELSE c

\* \w of the regular expression; \W is its complement.
IsWordChar(c) ==
    c \in Range(LowerLetters) \cup Range(UpperLetters) \cup Digits \cup {"_"}

\* String.prototype.trim
RECURSIVE Trim(_)
Trim(s) ==
    IF Len(s) = 0 THEN s
    ELSE IF s[1] \in Whitespace THEN Trim(Tail(s))
    ELSE IF s[Len(s)] \in Whitespace THEN Trim(SubSeq(s, 1, Len(s) - 1))
    ELSE s

\* extractText(msg): text, else caption, else '', trimmed.  An absent field
\* and an empty string are both falsy and are both written <<>>.
ExtractText(msg) ==
    Trim(IF msg.text # <<>> THEN msg.text
         ELSE IF msg.caption # <<>> THEN msg.caption ELSE <<>>)

KeywordWord == << "a", "t", "t", "e", "n", "d", "a", "n", "c", "e" >>

\* A detector that looks for the letters anywhere, inside longer words too.
KEYWORD_Substring(text) ==
    \E p \in 1..Len(text) :
        /\ p + Len(KeywordWord) - 1 <= Len(text)
        /\ \A k \in 1..Len(KeywordWord) : Lower(text[p + k - 1]) = KeywordWord[k]

\* KEYWORD.test(text) for /(^|\W)attendance(\W|$)/i
KEYWORD(text) ==
    \E p \in 1..Len(text) :
        /\ p + Len(KeywordWord) - 1 <= Len(text)
        /\ \A k \in 1..Len(KeywordWord) : Lower(text[p + k - 1]) = KeywordWord[k]
        /\ (p = 1 \/ ~IsWordChar(text[p - 1]))
        /\ (p + Len(KeywordWord) > Len(text)
              \/ ~IsWordChar(text[p + Len(KeywordWord)]))

\* !text || !KEYWORD.test(text), negated: the text part of the guard.
Detects(msg) == ExtractText(msg) # <<>> /\ KEYWORD(ExtractText(msg))

\* A guard that does not look at the type of the chat.
Triggers_AnyChat(chatType, msg) == Detects(msg)

\* The guard of bot.on('message'): a group chat and a non-empty matching text.
Triggers(chatType, msg) ==
    /\ chatType \in GroupTypes
    /\ Detects(msg)

\* Messages the model feeds to the bots.
SampleMessages ==
    { [text |-> <<>>, caption |-> <<>>],
      [text |-> << "h", "i" >>, caption |-> <<>>],
      [text |-> << " " >> \o KeywordWord \o << "!" >>, caption |-> <<>>],
      [text |-> <<>>, caption |-> KeywordWord \o << "!", "\n" >>],
      [text |-> KeywordWord \o << "s" >>, caption |-> <<>>] }

\* ------------------------------------------------------------ link resolver
DigitChars == << "0", "1", "2", "3", "4", "5", "6", "7", "8", "9" >>

\* The decimal digits of a positive integer as characters.
CharsOf(n) == [k \in 1..Len(StringOf(n)) |-> DigitChars[StringOf(n)[k] + 1]]

\* A chat: present is FALSE for a null or undefined chat, id is 0 when the
\* chat has no id, username is "" when it has no public handle.
NoChat == [present |-> FALSE, id |-> 0, username |-> ""]

\* String(chat?.id || ''): '' for a missing or zero id, else the decimal form.
IdStr(chat) ==
    IF ~chat.present \/ chat.id = 0 THEN <<>>
    ELSE IF chat.id < 0 THEN <<"-">> \o CharsOf(-chat.id)
    ELSE CharsOf(chat.id)

\* String.prototype.startsWith
StartsWith(s, prefix) ==
    Len(s) >= Len(prefix) /\ SubSeq(s, 1, Len(prefix)) = prefix

\* A link is the sequence of its path parts after the scheme; null is <<>>.
NoLink == <<>>

\* A resolver that looks at the id before the handle.
BuildLink_IdFirst(chat, messageId) ==
    IF StartsWith(IdStr(chat), << "-", "1", "0", "0" >>)
    THEN << "t.me", "c", SubSeq(IdStr(chat), 5, Len(IdStr(chat))),
            CharsOf(messageId) >>
    ELSE IF chat.present /\ chat.username # ""
    THEN << "t.me", chat.username, CharsOf(messageId) >>
    ELSE NoLink

\* buildLink of api/telegram.js.
BuildLink(chat, messageId) ==
    IF chat.present /\ chat.username # ""
    THEN << "t.me", chat.username, CharsOf(messageId) >>
    ELSE IF StartsWith(IdStr(chat), << "-", "1", "0", "0" >>)
    THEN << "t.me", "c", SubSeq(IdStr(chat), 5, Len(IdStr(chat))),
            CharsOf(messageId) >>
    ELSE NoLink

\* buildMessageLink of index.js: a missing chat returns null at once.
BuildMessageLink(chat, messageId) ==
    IF ~chat.present THEN NoLink
    ELSE IF chat.username # ""
    THEN << "t.me", chat.username, CharsOf(messageId) >>
    ELSE IF StartsWith(IdStr(chat), << "-", "1", "0", "0" >>)
    THEN << "t.me", "c", SubSeq(IdStr(chat), 5, Len(IdStr(chat))),
            CharsOf(messageId) >>
    ELSE NoLink

\* Chat ids the resolvers are called with: none, positive ids, negative ids
\* with and without the -100 prefix, and -100 itself.
ChatIds ==
    {0, 7, 100, 1001, 100123, -7, -10, -99, -100, -101, -1000, -1001, -1234,
     -2100, -10012, -100123, -1000123, -1100123}

Chats ==
    {NoChat} \cup
    {[present |-> TRUE, id |-> i, username |-> u] :
        i \in ChatIds, u \in {"", "mygroup"}}

MessageIds == {1, 42, 1005}

\* text.replace(/\s+/g, ' '): every run of whitespace becomes one space.
Normalize(s) ==
    LET marked == [k \in 1..Len(s) |->
                    IF s[k] \notin Whitespace THEN s[k]
                    ELSE IF k > 1 /\ s[k - 1] \in Whitespace THEN "drop"
                    ELSE " "]
        kept(c) == c # "drop"
    IN  SelectSeq(marked, kept)

\* String.prototype.slice(from, to) for 0 <= from <= to.
Slice(s, from, to) ==
    SubSeq(s, from + 1, IF to < Len(s) THEN to ELSE Len(s))

\* The one character U+2026.
Ellipsis == "ellipsis"

\* api/telegram.js, line 222: text.replace(/\s+/g,' ').slice(0,160)
Excerpt(text) == Slice(Normalize(text), 0, 160)

\* index.js, lines 115-116: more than 160 characters are cut to 157 and get
\* the ellipsis.
PollExcerpt(text) ==
    LET normalized == Normalize(text)
    IN  IF Len(normalized) > 160
        THEN Slice(normalized, 0, 157) \o <<Ellipsis>>
        ELSE normalized

\* A trigger text of 11 + n characters: the keyword, a space and n characters,
\* which are all "x" (plain) or have a space and a line break after every
\* five "x".
LongText(n, plain) ==
    KeywordWord \o <<" ">> \o
        [k \in 1..n |-> IF plain \/ k % 7 \in 1..5 THEN "x"
                        ELSE IF k % 7 = 6 THEN " " ELSE "\n"]

\* Trigger texts of 50, 156 .. 163 and 200 characters without whitespace runs,
\* and of 181 .. 196 characters with them.
LongMessages ==
    {[text |-> LongText(n, TRUE), caption |-> <<>>] :
        n \in {39, 189} \cup 145..152}
    \cup {[text |-> LongText(n, FALSE), caption |-> <<>>] : n \in 170..185}

\* The upper-case form of a letter.
Upper(c) ==
    IF \E k \in 1..Len(LowerLetters) : LowerLetters[k] = c
    THEN UpperLetters[CHOOSE k \in 1..Len(LowerLetters) : LowerLetters[k] = c]
    ELSE c

\* The keyword and near misses, in several letter cases.
WordForms ==
    { KeywordWord,
      [k \in 1..Len(KeywordWord) |-> Upper(KeywordWord[k])],
      <<Upper(KeywordWord[1])>> \o Tail(KeywordWord),
      [k \in 1..Len(KeywordWord) |->
          IF k % 2 = 0 THEN Upper(KeywordWord[k]) ELSE KeywordWord[k]],
      SubSeq(KeywordWord, 1, Len(KeywordWord) - 1),
      Tail(KeywordWord) }

\* What may stand before and after the word: nothing, whitespace, punctuation,
\* a letter, a digit, an underscore.
Affixes == { <<>>, << " " >>, << "\n" >>, << "!" >>, << "s" >>, << "9" >>,
             << "_" >>, << ".", " " >> }

\* Texts and captions the detector is called with.
WordMessages ==
    {[text |-> a \o w \o b, caption |-> <<>>] :
        a \in Affixes, w \in WordForms, b \in Affixes}
    \cup {[text |-> <<>>, caption |-> a \o KeywordWord \o b] :
            a \in Affixes, b \in Affixes}
    \cup {[text |-> <<>>, caption |-> <<>>],
          [text |-> << " ", "\n" >>, caption |-> <<>>],
          [text |-> << "x" >>, caption |-> KeywordWord],
          [text |-> KeywordWord \o << "s", " " >> \o KeywordWord,
           caption |-> <<>>]}

\* ----------------------------------------------------------------- fan-out
\* A check that treats every failure as a block.
IsBlocked_AnyFailure(outcome) == outcome # "ok"

\* String(code) === '403': the only error code with special handling.
IsBlocked(outcome) == outcome = "403"

\* Where the for-loop goes after the attempt on userIds[i] succeeded and the
\* pacing timer fired.
NextRecipient(userIds, i) == i + 1

\* A catch block that gives up on the rest of the list.
AfterCatch_Abort(userIds, i) == Len(userIds) + 1

\* Where the for-loop goes after the catch block handled a failed attempt on
\* userIds[i]: the block rethrows nothing, the loop goes on.
AfterCatch(userIds, i) == i + 1

\* ------------------------------------------------------- scheduled reminder
MinutesPerDay == 24 * 60
MinutesPerWeek == 7 * MinutesPerDay

\* An instant is a UTC time, in minutes since a Sunday 00:00 UTC.
\* nowInGmt5 and getGmt5Parts: shift by +5h, then read the UTC fields.
GetGmt5Parts(t) ==
    LET g == (t + 5 * 60) % MinutesPerWeek
    IN  [day |-> g \div MinutesPerDay,
         hour |-> (g % MinutesPerDay) \div 60,
         minute |-> g % 60]

\* CLASS_SCHEDULE_BY_GMT5_DAY[day], "" (undefined, falsy) without an entry.
ClassName(day) ==
    IF day \in DOMAIN CLASS_SCHEDULE_BY_GMT5_DAY
    THEN CLASS_SCHEDULE_BY_GMT5_DAY[day] ELSE ""

Abs(x) == IF x < 0 THEN -x ELSE x

\* A window that admits the scheduled minute only.
OffSchedule_ExactMinute(parts) ==
    parts.hour # CLASS_REMINDER_HOUR_GMT5
        \/ parts.minute # CLASS_REMINDER_MINUTE_GMT5

\* Math.abs(nowMinutes - scheduledMinutes) > 1
OffSchedule(parts) ==
    LET scheduledMinutes == CLASS_REMINDER_HOUR_GMT5 * 60 + CLASS_REMINDER_MINUTE_GMT5
        nowMinutes == parts.hour * 60 + parts.minute
    IN  Abs(nowMinutes - scheduledMinutes) > 1

\* The UTC instant at which the GMT+5 clock shows the given day and time.
AtGmt5(day, hour, minute) ==
    (day * MinutesPerDay + hour * 60 + minute + MinutesPerWeek - 5 * 60)
        % MinutesPerWeek

\* Instants the scheduled handler is invoked at: Monday 18:26 (inside the
\* window), Monday 18:27 (outside it) and Friday 18:25 (no class), GMT+5.
Instants == {AtGmt5(1, 18, 26), AtGmt5(1, 18, 27), AtGmt5(5, 18, 25)}

\* Times of day around the reminder window and across the day, GMT+5, in
\* minutes since midnight: 00:00, 04:59, 05:00, 17:25, 18:23 .. 18:27, 19:25
\* and 23:59.
SchedTimes ==
    {0, 4 * 60 + 59, 5 * 60, 17 * 60 + 25, 19 * 60 + 25, 23 * 60 + 59}
        \cup {18 * 60 + m : m \in 23..27}

\* Every weekday at every one of these times.
SchedInstants ==
    {AtGmt5(d, tm \div 60, tm % 60) : d \in 0..6, tm \in SchedTimes}

\* Counters that count a blocked recipient as removed only.
Tally_Exclusive(c, outcome) ==
    [sent |-> c.sent + (IF outcome = "ok" THEN 1 ELSE 0),
     failed |-> c.failed + (IF outcome # "ok" /\ ~IsBlocked(outcome) THEN 1 ELSE 0),
     removed |-> c.removed + (IF outcome # "ok" /\ IsBlocked(outcome) THEN 1 ELSE 0)]

\* sent, removed and failed after one more attempt with the given outcome.
Tally(c, outcome) ==
    [sent |-> c.sent + (IF outcome = "ok" THEN 1 ELSE 0),
     failed |-> c.failed + (IF outcome # "ok" THEN 1 ELSE 0),
     removed |-> c.removed + (IF outcome # "ok" /\ IsBlocked(outcome) THEN 1 ELSE 0)]

\* ------------------------------------------------------------ menu presets
Commands ==
    {"start", "settings", "menu", "stop",
     "preset:attendance", "preset:both", "preset:none"}
Presets == {"preset:attendance", "preset:both", "preset:none"}

\* The handler a command or callback is routed to: bot.start,
\* bot.command(['settings', 'menu']), bot.command('stop'), bot.action(...).
HandlerOf(command) == IF command = "menu" THEN "settings" ELSE command

\* A preset:attendance that leaves the class list switched on.
Enabled_KeepClass(op, key) ==
    CASE op = "preset:attendance" -> TRUE
      [] op = "preset:both" -> TRUE
      [] OTHER -> FALSE

\* The `enabled` argument of the setSub call a handler issues on a list;
\* preset:none and /stop go through removeFromAllLists.
Enabled(op, key) ==
    CASE op = "preset:attendance" -> key = SUBS_ATTENDANCE_KEY
      [] op = "preset:both" -> TRUE
      [] OTHER -> FALSE

\* formatSettingsText: the two status lines of the menu text.
FormatSettingsText(settings) ==
    [att |-> IF settings.attendance THEN "ON" ELSE "OFF",
     cls |-> IF settings.classReminders THEN "ON" ELSE "OFF"]

\* A keyboard whose first option looks at the attendance flag alone.
BuildMenuKeyboard_AttendanceAlone(settings) ==
    {o \in Presets :
        \/ o = "preset:attendance" /\ settings.attendance
        \/ o = "preset:both" /\ settings.attendance /\ settings.classReminders
        \/ o = "preset:none" /\ ~settings.attendance /\ ~settings.classReminders}

\* buildMenuKeyboard: the options whose label carries the check mark.
BuildMenuKeyboard(settings) ==
    {o \in Presets :
        \/ o = "preset:attendance"
              /\ settings.attendance /\ ~settings.classReminders
        \/ o = "preset:both" /\ settings.attendance /\ settings.classReminders
        \/ o = "preset:none" /\ ~settings.attendance /\ ~settings.classReminders}

\* No menu rendered.
NoMenu == [text |-> [att |-> "", cls |-> ""], marks |-> {}, url |-> <<>>]

\* The username getMe answers with.
BotName == "attendance_bot"

\* buildMenuKeyboard, lines 105-107: the add-to-group link, by its parts after
\* the scheme; the bare https://t.me while botUsername is not set.
AddToGroupUrl(botUsername) ==
    IF botUsername # "" THEN << "t.me", botUsername, "startgroup=true" >>
    ELSE << "t.me" >>

\* The module as loaded: no bot, botUsername undefined.
BotCold == [made |-> FALSE, getMe |-> "none", botUsername |-> ""]

\* An instance that has handled updates and whose getMe has resolved.
BotWarm == [made |-> TRUE, getMe |-> "resolved", botUsername |-> BotName]

\* initBot, lines 161-165, with BOT_TOKEN set: the cached bot is kept;
\* otherwise the bot is made and getMe is started and not awaited.
StartGetMe(b) ==
    IF b.made THEN b
    ELSE [made |-> TRUE, getMe |-> "pending", botUsername |-> ""]

\* A showMenu that gives up when the edit is rejected.
ShowMenuDelivery_NoFallback(preferEdit, editOk, replyOk) ==
    IF preferEdit
    THEN (IF editOk THEN [edit |-> "ok", reply |-> "none", out |-> "edit"]
          ELSE [edit |-> "rejected", reply |-> "none", out |-> "raised"])
    ELSE (IF replyOk THEN [edit |-> "none", reply |-> "ok", out |-> "reply"]
          ELSE [edit |-> "none", reply |-> "failed", out |-> "raised"])

\* showMenu, lines 123-132: with preferEdit on a callback query the message
\* is edited and the function returns; a rejected edit is swallowed and falls
\* through to ctx.reply, whose failure is raised.
ShowMenuDelivery(preferEdit, editOk, replyOk) ==
    IF preferEdit /\ editOk
    THEN [edit |-> "ok", reply |-> "none", out |-> "edit"]
    ELSE [edit |-> IF preferEdit THEN "rejected" ELSE "none",
          reply |-> IF replyOk THEN "ok" ELSE "failed",
          out |-> IF replyOk THEN "reply" ELSE "raised"]

\* -------------------------------------------------------------------- state
\* The model runs one fan-out at a time (a keyword fan-out or a reminder
\* fan-out); command handlers and in-flight removals run concurrently with it.
Slots == {"w1", "w2"}     \* concurrent webhook invocations handling a command

VARIABLES
    kv,       \* the Vercel KV store: key -> set of member strings
    orphans,  \* srem calls of class-reminders.js still in flight after its
              \* removeFromAllLists returned: set of <<key, userId>>
    fan,      \* the fan-out in progress, of api/telegram.js or class-reminders.js
    cmd,      \* per webhook invocation: the command handler in progress
    gone,     \* observation: the users whose removal after a 403 completed
              \* with every remove succeeding, and who have not opted in since
    users,    \* the users table of db.js: a sequence of rows
    poll,     \* the keyword fan-out of index.js
    pout,     \* observation: what the last command handler of index.js did
    last,     \* observation: the last call made directly on a store or on
              \* a helper function
    bot       \* the module-level bot and botUsername of api/telegram.js,
              \* with the state of the getMe call that initBot starts

vars == <<kv, orphans, fan, cmd, gone, users, poll, pout, last, bot>>

\* What the webhook bot and the scheduled handler never touch, and what the
\* polling bot never touches.
notWeb == <<users, poll, pout, last>>
notPoll == <<kv, orphans, fan, cmd, gone, last, bot>>

Quiescent == {"idle", "done"}

\* Most in-flight srem calls the model keeps at a time.
MaxOrphans == 1

PollIdle ==
    [pc |-> "idle", users |-> <<>>, i |-> 1, att |-> <<>>, paced |-> TRUE,
     text |-> <<>>, excerpt |-> <<>>]

NoOutput == [op |-> "none", chat |-> "none", user |-> 0, replied |-> FALSE]

NoCall == [op |-> "none", key |-> "none", user |-> 0, enabled |-> FALSE,
           ok |-> TRUE, present |-> FALSE]

FanIdle ==
    [pc |-> "idle", kind |-> "none", res |-> "none", at |-> 0, force |-> FALSE,
     userIds |-> <<>>, i |-> 1, pending |-> {}, code |-> "none",
     counts |-> [sent |-> 0, failed |-> 0, removed |-> 0],
     att |-> <<>>, paced |-> TRUE, clean |-> TRUE, raced |-> FALSE,
     className |-> "", status |-> 0, responses |-> 0,
     text |-> <<>>, excerpt |-> <<>>, chat |-> "none",
     env |-> "none", auth |-> "none"]

CmdIdle ==
    [pc |-> "idle", user |-> 0, op |-> "none", chat |-> "none", pending |-> {},
     att |-> FALSE, cls |-> FALSE, out |-> "none", clean |-> TRUE,
     status |-> 0, responses |-> 0,
     edit |-> "none", reply |-> "none", menu |-> NoMenu]

\* The state after deployment: nobody has subscribed yet.
Init ==
    /\ kv = [k \in Keys |-> {}]
    /\ orphans = {}
    /\ fan = FanIdle
    /\ cmd = [s \in Slots |-> CmdIdle]
    /\ gone = {}
    /\ users = <<>>
    /\ poll = PollIdle
    /\ pout = NoOutput
    /\ last = NoCall
    /\ bot = BotWarm

\* The store outlives every invocation: a fan-out may find any subscription
\* sets that earlier commands left in it.
InitStored ==
    /\ kv \in [Keys -> SUBSET {StringOf(u) : u \in UserIds}]
    /\ orphans = {}
    /\ fan = FanIdle
    /\ cmd = [s \in Slots |-> CmdIdle]
    /\ gone = {}
    /\ users = <<>>
    /\ poll = PollIdle
    /\ pout = NoOutput
    /\ last = NoCall
    /\ bot = BotWarm

\* Observation: removeFromAllLists(uid) has returned after a 403.
Removed403(g, uid, clean) == IF clean THEN g \cup {uid} ELSE g

\* A webhook handler that lets an error of handleUpdate reach the platform,
\* which answers 500.
WebhookStatus_Propagate(raised) == IF raised THEN 500 ELSE 200

\* handler of api/telegram.js, lines 236-245: res.status(200).send('OK') after
\* handleUpdate, and res.status(200).send('OK') in the catch.
WebhookStatus(raised) == IF raised THEN 200 ELSE 200

\* The end of a command handler, and with it of the webhook invocation: the
\* response is written, and only what was sent, and how, is kept.
CmdDone(c, sent) ==
    [CmdIdle EXCEPT !.pc = "done", !.op = c.op, !.chat = c.chat, !.out = sent,
                    !.clean = c.clean,
                    !.edit = c.edit, !.reply = c.reply, !.menu = c.menu,
                    !.status = WebhookStatus(sent = "raised"),
                    !.responses = c.responses + 1]

\* Observation (the clean field of a handler): no store call of the handler
\* has failed and no other invocation has written uid's membership while the
\* handler was in progress.
Touch(c, uid, self) ==
    [s \in Slots |->
        IF s # self /\ c[s].pc \notin Quiescent /\ c[s].user = uid
        THEN [c[s] EXCEPT !.clean = FALSE] ELSE c[s]]

\* Observation (the raced field of a fan-out): an opt-in of the recipient
\* being removed landed while its removal was in progress.
OptedIn(f, uid) ==
    IF f.pc = "removing" /\ f.userIds[f.i] = uid
    THEN [f EXCEPT !.raced = TRUE] ELSE f

\* res.status(...) of the response with the given outcome: 401 for a wrong
\* secret, 200 for every other response.
StatusOf(r) == IF r = "unauthorized" THEN 401 ELSE 200

\* The end of a fan-out: one response is written unless a fault left the
\* handler, and only the response is kept (the counters and the class name are
\* part of the executed response).
FanDone(f, r) ==
    [FanIdle EXCEPT !.pc = "done", !.kind = f.kind, !.res = r,
                    !.at = f.at, !.force = f.force, !.chat = f.chat,
                    !.env = f.env, !.auth = f.auth,
                    !.counts = IF r = "executed" THEN f.counts ELSE @,
                    !.className = IF r = "executed" THEN f.className ELSE @,
                    !.status = IF r = "thrown" THEN @ ELSE StatusOf(r),
                    !.responses = IF r = "thrown" THEN @ ELSE f.responses + 1]

\* ------------------------------------------- keyword fan-out (api/telegram.js)
\* bot.on('message'): the guard, listSubs(SUBS_ATTENDANCE_KEY), and the entry
\* into notifyAllUsers.
KwMessage(chatType, msg, ok) ==
    /\ fan.pc \in Quiescent
    /\ IF Triggers(chatType, msg)
       THEN \E l \in ListSubs(kv, SUBS_ATTENDANCE_KEY, ok) :
                fan' = [FanIdle EXCEPT !.pc = "loop", !.kind = "keyword",
                                       !.userIds = l, !.chat = chatType,
                                       !.text = ExtractText(msg),
                                       !.excerpt = Excerpt(ExtractText(msg))]
       ELSE fan' = FanDone([FanIdle EXCEPT !.kind = "keyword",
                                           !.chat = chatType], "ignored")
    /\ bot' = StartGetMe(bot)
    /\ UNCHANGED <<kv, orphans, cmd, gone>>
    /\ UNCHANGED notWeb

\* notifyAllUsers: one sendMessage to userIds[i] and the branch it takes.
KwSend(outcome) ==
    /\ fan.kind = "keyword"
    /\ fan.pc = "loop"
    /\ fan.i <= Len(fan.userIds)
    /\ fan' = [fan EXCEPT
                !.att = Append(@, fan.userIds[fan.i]),
                !.paced = FALSE,
                !.clean = TRUE,
                !.code = IF outcome # "ok" /\ ~IsBlocked(outcome) THEN "none"
                         ELSE outcome,
                !.pc = IF outcome = "ok" THEN "pause"
                       ELSE IF IsBlocked(outcome) THEN "removing" ELSE "loop",
                !.pending = IF outcome # "ok" /\ IsBlocked(outcome)
                            THEN AllLists ELSE {},
                !.i = IF outcome # "ok" /\ ~IsBlocked(outcome)
                      THEN AfterCatch(fan.userIds, @) ELSE @]
    /\ UNCHANGED <<kv, orphans, cmd, gone>>
    /\ UNCHANGED notWeb
    /\ UNCHANGED bot

\* await new Promise(r => setTimeout(r, 50))
KwPause ==
    /\ fan.kind = "keyword"
    /\ fan.pc = "pause"
    /\ fan' = [fan EXCEPT !.pc = "loop", !.paced = TRUE, !.code = "none",
                          !.i = NextRecipient(fan.userIds, @)]
    /\ UNCHANGED <<kv, orphans, cmd, gone>>
    /\ UNCHANGED notWeb
    /\ UNCHANGED bot

\* removeFromAllLists(uid): one of its setSub(key, uid, false) calls returns;
\* Promise.all resolves when both have, whatever their outcome.
KwSrem(key, ok) ==
    LET uid == fan.userIds[fan.i] IN
    /\ fan.kind = "keyword"
    /\ fan.pc = "removing"
    /\ key \in fan.pending
    /\ kv' = SetSub(kv, key, uid, FALSE, ok)
    /\ cmd' = IF ok THEN Touch(cmd, uid, "fan") ELSE cmd
    /\ IF fan.pending = {key}
       THEN /\ fan' = [fan EXCEPT !.pending = {}, !.pc = "loop", !.clean = TRUE,
                                  !.raced = FALSE, !.code = "none",
                                  !.i = AfterCatch(fan.userIds, @)]
            /\ gone' = Removed403(gone, uid, fan.clean /\ ok /\ ~fan.raced)
       ELSE /\ fan' = [fan EXCEPT !.pending = @ \ {key}, !.clean = @ /\ ok]
            /\ UNCHANGED gone
    /\ UNCHANGED orphans
    /\ UNCHANGED notWeb
    /\ UNCHANGED bot

\* The for-loop is over: notifyAllUsers and the handler return.
KwFinish ==
    /\ fan.kind = "keyword"
    /\ fan.pc = "loop"
    /\ fan.i > Len(fan.userIds)
    /\ fan' = FanDone(fan, "notified")
    /\ UNCHANGED <<kv, orphans, cmd, gone>>
    /\ UNCHANGED notWeb
    /\ UNCHANGED bot

\* The steps of a keyword fan-out in progress.
KwStep ==
    \/ \E o \in SendOutcomes : KwSend(o)
    \/ KwPause
    \/ \E k \in Keys, ok \in BOOLEAN : KwSrem(k, ok)
    \/ KwFinish

KwNext ==
    \/ \E c \in ChatTypes, m \in SampleMessages, ok \in BOOLEAN : KwMessage(c, m, ok)
    \/ \E o \in SendOutcomes : KwSend(o)
    \/ KwPause
    \/ \E k \in Keys, ok \in BOOLEAN : KwSrem(k, ok)
    \/ KwFinish

\* ------------------------------- scheduled handler (api/class-reminders.js)
\* A handler without the outer try: the fault reaches the invoker.
OuterCatch_Rethrow(fault) == "thrown"

\* handler, lines 126-129: whatever is thrown inside the outer try (the missing
\* token, a rejected kv.smembers) is answered with {ok: false, error}.
OuterCatch(fault) == IF fault = "token" THEN "error_token" ELSE "error_store"

\* A handler that does not compare the secret.
EnvGate_NoSecretCheck(env, auth) ==
    IF env = "notoken" THEN "error_token"
    ELSE IF env = "nokv" THEN "missingkv"
    ELSE "pass"

\* handler, lines 41-61: the environment and the optional secret.
\*   env:  "ok", "notoken" (BOT_TOKEN unset), "nokv" (a KV variable unset)
\*   auth: "open" (no CRON_SECRET), "match", "mismatch"
EnvGate(env, auth) ==
    IF env = "notoken" THEN OuterCatch("token")
    ELSE IF env = "nokv" THEN "missingkv"
    ELSE IF auth = "mismatch" THEN "unauthorized"
    ELSE "pass"

\* A gate in which the override flag skips the weekday check too.
ScheduleGate_ForceRunsAnyDay(force, parts) ==
    IF force THEN "pass"
    ELSE IF ClassName(parts.day) = "" THEN "noclass"
    ELSE IF OffSchedule(parts) THEN "wrongtime"
    ELSE "pass"

\* handler, lines 63-88: the weekday and the time window.
ScheduleGate(force, parts) ==
    IF ~force /\ ClassName(parts.day) = "" THEN "noclass"
    ELSE IF ~force /\ OffSchedule(parts) THEN "wrongtime"
    ELSE IF ClassName(parts.day) = "" THEN "noclass"
    ELSE "pass"

\* handler, up to the for-loop: the gates, then kv.smembers(SUBS_CLASS_KEY),
\* whose rejection is caught by the outer try only.
RemInvoke(env, auth, force, t, ok) ==
    LET gate == IF EnvGate(env, auth) # "pass" THEN EnvGate(env, auth)
                ELSE ScheduleGate(force, GetGmt5Parts(t))
        call == [FanIdle EXCEPT !.kind = "reminder", !.at = t, !.force = force,
                    !.env = env, !.auth = auth,
                    !.className = IF EnvGate(env, auth) = "pass"
                                  THEN ClassName(GetGmt5Parts(t).day) ELSE ""]
    IN
    /\ fan.pc \in Quiescent
    /\ IF gate # "pass" THEN fan' = FanDone(call, gate)
       ELSE IF ~ok THEN fan' = FanDone(call, OuterCatch("store"))
       ELSE \E l \in Smembers(kv, SUBS_CLASS_KEY) :
                fan' = [call EXCEPT !.pc = "loop", !.userIds = l]
    /\ UNCHANGED <<kv, orphans, cmd, gone>>
    /\ UNCHANGED notWeb
    /\ UNCHANGED bot

\* One sendMessage to userIds[i], the counters, and the branch it takes.
RemSend(outcome) ==
    /\ fan.kind = "reminder"
    /\ fan.pc = "loop"
    /\ fan.i <= Len(fan.userIds)
    /\ fan' = [fan EXCEPT
                !.att = Append(@, fan.userIds[fan.i]),
                !.paced = FALSE,
                !.counts = Tally(@, outcome),
                !.code = IF outcome # "ok" /\ ~IsBlocked(outcome) THEN "none"
                         ELSE outcome,
                !.pc = IF outcome = "ok" THEN "pause"
                       ELSE IF IsBlocked(outcome) THEN "removing" ELSE "loop",
                !.pending = IF outcome # "ok" /\ IsBlocked(outcome)
                            THEN AllLists ELSE {},
                !.i = IF outcome # "ok" /\ ~IsBlocked(outcome)
                      THEN AfterCatch(fan.userIds, @) ELSE @]
    /\ UNCHANGED <<kv, orphans, cmd, gone>>
    /\ UNCHANGED notWeb
    /\ UNCHANGED bot

\* await new Promise((r) => setTimeout(r, 50))
RemPause ==
    /\ fan.kind = "reminder"
    /\ fan.pc = "pause"
    /\ fan' = [fan EXCEPT !.pc = "loop", !.paced = TRUE, !.code = "none",
                          !.i = NextRecipient(fan.userIds, @)]
    /\ UNCHANGED <<kv, orphans, cmd, gone>>
    /\ UNCHANGED notWeb
    /\ UNCHANGED bot

\* removeFromAllLists(uid) of class-reminders.js: both kv.srem calls are
\* issued, then Promise.all is awaited inside one try.  When a call succeeds
\* the other is still awaited; when a call is rejected Promise.all rejects,
\* the catch logs and the function returns while the other call is still in
\* flight.
RemSrem(key, ok) ==
    LET uid == fan.userIds[fan.i]
        left == {<<k, uid>> : k \in fan.pending \ {key}}
    IN
    /\ fan.kind = "reminder"
    /\ fan.pc = "removing"
    /\ key \in fan.pending
    /\ ok \/ Cardinality(orphans \cup left) <= MaxOrphans
    /\ kv' = SetSub(kv, key, uid, FALSE, ok)
    /\ cmd' = IF ok THEN Touch(cmd, uid, "fan") ELSE cmd
    /\ IF ok /\ fan.pending # {key}
       THEN /\ fan' = [fan EXCEPT !.pending = @ \ {key}]
            /\ UNCHANGED <<orphans, gone>>
       ELSE /\ fan' = [fan EXCEPT !.pending = {}, !.pc = "loop", !.code = "none",
                                  !.raced = FALSE,
                                  !.i = AfterCatch(fan.userIds, @)]
            /\ orphans' = IF ok THEN orphans ELSE orphans \cup left
            /\ gone' = Removed403(gone, uid, ok /\ ~fan.raced)
    /\ UNCHANGED notWeb
    /\ UNCHANGED bot

\* The for-loop is over: the handler answers with the counts.
RemFinish ==
    /\ fan.kind = "reminder"
    /\ fan.pc = "loop"
    /\ fan.i > Len(fan.userIds)
    /\ fan' = FanDone(fan, "executed")
    /\ UNCHANGED <<kv, orphans, cmd, gone>>
    /\ UNCHANGED notWeb
    /\ UNCHANGED bot

\* A kv.srem left in flight by removeFromAllLists returns.
OrphanSrem(key, uid, ok) ==
    /\ <<key, uid>> \in orphans
    /\ orphans' = orphans \ {<<key, uid>>}
    /\ kv' = SetSub(kv, key, uid, FALSE, ok)
    /\ cmd' = IF ok THEN Touch(cmd, uid, "fan") ELSE cmd
    /\ UNCHANGED <<fan, gone>>
    /\ UNCHANGED notWeb
    /\ UNCHANGED bot

\* The scheduled handler invoked at the instants T with the override flags F.
RemNext(T, F) ==
    \/ \E env \in {"ok", "notoken", "nokv"}, auth \in {"open", "match", "mismatch"},
          force \in F, t \in T, ok \in BOOLEAN :
            RemInvoke(env, auth, force, t, ok)
    \/ \E o \in SendOutcomes : RemSend(o)
    \/ RemPause
    \/ \E k \in Keys, ok \in BOOLEAN : RemSrem(k, ok)
    \/ RemFinish
    \/ \E k \in Keys, u \in UserIds, ok \in BOOLEAN : OrphanSrem(k, u, ok)

\* ------------------------------------ command handlers (api/telegram.js)
\* A command or a menu callback arrives; handlers return at once outside a
\* private chat (showMenu does so for /start, /settings and /menu).  In a
\* private chat the menu commands issue the two isSub calls of getSettings,
\* the presets and /stop issue their two setSub calls.  The webhook handler
\* has called initBot before the update reaches its handler.
CmdArrive(s, command, chatType, uid) ==
    LET call == [CmdIdle EXCEPT !.user = uid, !.op = HandlerOf(command),
                                !.chat = chatType]
    IN
    /\ cmd[s].pc \in Quiescent
    /\ cmd' = [cmd EXCEPT ![s] =
            IF chatType # "private" THEN CmdDone(call, "none")
            ELSE IF call.op \in {"start", "settings"}
                 THEN [call EXCEPT !.pc = "reading", !.pending = Keys]
                 ELSE [call EXCEPT !.pc = "setting",
                         !.pending = IF call.op \in {"preset:none", "stop"}
                                     THEN AllLists ELSE Keys]]
    /\ bot' = StartGetMe(bot)
    /\ UNCHANGED <<kv, orphans, fan, gone>>
    /\ UNCHANGED notWeb

\* One setSub call of a preset or of /stop returns.  After the last one the
\* handler calls the gateway (gw: whether that call succeeds): /stop replies
\* and returns, a preset answers the callback query and enters showMenu.
CmdSetSub(s, key, ok, gw) ==
    LET c == cmd[s]
        on == Enabled(c.op, key)
        c1 == [c EXCEPT !.pending = @ \ {key}, !.clean = @ /\ ok]
        c2 == IF c1.pending # {} THEN c1
              ELSE IF ~gw THEN CmdDone(c1, "raised")
              ELSE IF c.op = "stop" THEN CmdDone(c1, "text")
              ELSE [c1 EXCEPT !.pc = "reading", !.pending = Keys]
    IN
    /\ c.pc = "setting"
    /\ key \in c.pending
    /\ kv' = SetSub(kv, key, c.user, on, ok)
    /\ cmd' = [IF ok THEN Touch(cmd, c.user, s) ELSE cmd EXCEPT ![s] = c2]
    /\ gone' = IF ok /\ on THEN gone \ {c.user} ELSE gone
    /\ fan' = IF ok /\ on THEN OptedIn(fan, c.user) ELSE fan
    /\ UNCHANGED orphans
    /\ UNCHANGED notWeb
    /\ UNCHANGED bot

\* One isSub call of getSettings returns.  After the last one showMenu renders
\* text and keyboard from the two answers; a preset (preferEdit on a callback
\* query) edits the message and replies only if the edit is rejected, a
\* command replies.
CmdIsSub(s, key, ok, editOk, replyOk) ==
    LET c == cmd[s]
        v == IsSub(kv, key, c.user, ok)
        c1 == [c EXCEPT !.pending = @ \ {key}, !.clean = @ /\ ok,
                        !.att = IF key = SUBS_ATTENDANCE_KEY THEN v ELSE @,
                        !.cls = IF key = SUBS_CLASS_KEY THEN v ELSE @]
        settings == [attendance |-> c1.att, classReminders |-> c1.cls]
        d == ShowMenuDelivery(c.op \in Presets, editOk, replyOk)
        c2 == [c1 EXCEPT !.edit = d.edit, !.reply = d.reply,
                         !.menu = [text |-> FormatSettingsText(settings),
                                   marks |-> BuildMenuKeyboard(settings),
                                   url |-> AddToGroupUrl(bot.botUsername)]]
    IN
    /\ c.pc = "reading"
    /\ key \in c.pending
    /\ cmd' = [cmd EXCEPT ![s] =
            IF c1.pending # {} THEN c1
            ELSE CmdDone(c2, d.out)]
    /\ UNCHANGED <<kv, orphans, fan, gone>>
    /\ UNCHANGED notWeb
    /\ UNCHANGED bot

\* getBody: a string body is parsed, and an unparsable one counts as {}; any
\* other body is taken as it is, {} when absent.
\*   body: "json", "notjson" (strings), "object", "absent"
GetBody(body) ==
    IF body \in {"json", "notjson"}
    THEN (IF body = "json" THEN "update" ELSE "empty")
    ELSE IF body = "object" THEN "update" ELSE "empty"

\* initBot: the cached bot is returned; without one a missing BOT_TOKEN throws.
InitBot(cached, token) ==
    IF cached THEN "bot" ELSE IF ~token THEN "throw" ELSE "bot"

\* A webhook request that reaches no command or message handler: a request
\* that is not a POST, a POST without bot token, a POST whose body yields {}
\* and a POST with an update of a kind that has no handler (raises: whether
\* handleUpdate throws on it).
WebhookOther(s, method, body, cached, token, raises) ==
    LET op == IF method # "POST" THEN "nonpost"
              ELSE IF InitBot(cached, token) = "throw" THEN "notoken"
              ELSE IF GetBody(body) = "empty" THEN "emptyupdate"
              ELSE "unhandled"
        sent == IF op = "notoken" \/ (op \in {"emptyupdate", "unhandled"} /\ raises)
                THEN "raised" ELSE "none"
    IN
    /\ cmd[s].pc \in Quiescent
    /\ cmd' = [cmd EXCEPT ![s] = CmdDone([CmdIdle EXCEPT !.op = op], sent)]
    /\ UNCHANGED <<kv, orphans, fan, gone>>
    /\ UNCHANGED notWeb
    /\ UNCHANGED bot

\* The requests of that kind the model sends: a GET; a POST of a JSON string
\* with no token, on a cold and on a warm instance; a POST whose string body
\* is not JSON; a POST without body; a POST of a parsed update without handler.
Request(method, body, cached, token, raises) ==
    [method |-> method, body |-> body, cached |-> cached, token |-> token,
     raises |-> raises]

WebhookRequests ==
    {Request("GET", "absent", FALSE, TRUE, FALSE),
     Request("POST", "json", FALSE, FALSE, FALSE),
     Request("POST", "json", TRUE, FALSE, FALSE),
     Request("POST", "absent", TRUE, TRUE, FALSE)}
    \cup {Request("POST", "notjson", FALSE, TRUE, r) : r \in BOOLEAN}
    \cup {Request("POST", "object", TRUE, TRUE, r) : r \in BOOLEAN}

\* The steps of a command handler in progress.
CmdStep(s) ==
    \/ \E k \in Keys, ok \in BOOLEAN, gw \in BOOLEAN : CmdSetSub(s, k, ok, gw)
    \/ \E k \in Keys, ok \in BOOLEAN, e \in BOOLEAN, r \in BOOLEAN :
            CmdIsSub(s, k, ok, e, r)

CmdNext(s) ==
    \/ \E c \in Commands, t \in ChatTypes, u \in UserIds : CmdArrive(s, c, t, u)
    \/ \E q \in WebhookRequests :
            WebhookOther(s, q.method, q.body, q.cached, q.token, q.raises)
    \/ \E k \in Keys, ok \in BOOLEAN, gw \in BOOLEAN : CmdSetSub(s, k, ok, gw)
    \/ \E k \in Keys, ok \in BOOLEAN, e \in BOOLEAN, r \in BOOLEAN :
            CmdIsSub(s, k, ok, e, r)

\* bot.telegram.getMe().then(...).catch(() => {}): the call started by initBot
\* settles; its answer sets botUsername, its failure is dropped.
GetMeSettles(ok) ==
    /\ bot.getMe = "pending"
    /\ bot' = [bot EXCEPT !.getMe = IF ok THEN "resolved" ELSE "failed",
                          !.botUsername = IF ok THEN BotName ELSE @]
    /\ UNCHANGED <<kv, orphans, fan, cmd, gone>>
    /\ UNCHANGED notWeb

\* A freshly loaded instance with an empty store.
InitCold ==
    /\ kv = [k \in Keys |-> {}]
    /\ orphans = {}
    /\ fan = FanIdle
    /\ cmd = [s \in Slots |-> CmdIdle]
    /\ gone = {}
    /\ users = <<>>
    /\ poll = PollIdle
    /\ pout = NoOutput
    /\ last = NoCall
    /\ bot = BotCold

\* The commands of one invocation at a time on a freshly loaded instance, with
\* the getMe call of initBot settling at any moment.
NextBoot ==
    \/ \E c \in Commands, t \in ChatTypes, u \in UserIds : CmdArrive("w1", c, t, u)
    \/ \E k \in Keys, ok \in BOOLEAN, gw \in BOOLEAN : CmdSetSub("w1", k, ok, gw)
    \/ \E k \in Keys, ok \in BOOLEAN, e \in BOOLEAN, r \in BOOLEAN :
            CmdIsSub("w1", k, ok, e, r)
    \/ \E ok \in BOOLEAN : GetMeSettles(ok)

SpecBoot == InitCold /\ [][NextBoot]_vars

\* The webhook bot: commands of one invocation and the keyword fan-out.
Next == KwNext \/ CmdNext("w1")

Spec == Init /\ [][Next]_vars

\* The webhook bot taking one request at a time, with every store call,
\* gateway call and timer of the handler in progress returning in the end.
NoCommand == cmd["w1"].pc \in Quiescent
NoFanOut == fan.pc \in Quiescent

NextHook ==
    \/ NoCommand /\ \E c \in ChatTypes, m \in SampleMessages, ok \in BOOLEAN :
            KwMessage(c, m, ok)
    \/ NoCommand /\ \E o \in SendOutcomes : KwSend(o)
    \/ NoCommand /\ KwPause
    \/ NoCommand /\ \E k \in Keys, ok \in BOOLEAN : KwSrem(k, ok)
    \/ NoCommand /\ KwFinish
    \/ NoFanOut /\ \E c \in Commands, t \in ChatTypes, u \in UserIds :
            CmdArrive("w1", c, t, u)
    \/ NoFanOut /\ \E q \in WebhookRequests :
            WebhookOther("w1", q.method, q.body, q.cached, q.token, q.raises)
    \/ NoFanOut /\ \E k \in Keys, ok \in BOOLEAN, gw \in BOOLEAN :
            CmdSetSub("w1", k, ok, gw)
    \/ NoFanOut /\ \E k \in Keys, ok \in BOOLEAN, e \in BOOLEAN, r \in BOOLEAN :
            CmdIsSub("w1", k, ok, e, r)

SpecHook ==
    Init /\ [][NextHook]_vars /\ WF_vars(CmdStep("w1")) /\ WF_vars(KwStep)

\* The two fan-outs over a store filled earlier.
NextFan == KwNext \/ RemNext(Instants, BOOLEAN)

SpecFan == InitStored /\ [][NextFan]_vars

\* The scheduled handler alone, invoked at every weekday and around the window.
\* The environment and the secret are varied at one instant only: EnvGate does
\* not depend on the time.
NextSched ==
    \/ \E force \in BOOLEAN, t \in SchedInstants, ok \in BOOLEAN :
            RemInvoke("ok", "open", force, t, ok)
    \/ \E env \in {"ok", "notoken", "nokv"}, auth \in {"match", "mismatch"} :
            RemInvoke(env, auth, FALSE, AtGmt5(1, 18, 25), TRUE)
    \/ \E o \in SendOutcomes : RemSend(o)
    \/ RemPause
    \/ \E k \in Keys, ok \in BOOLEAN : RemSrem(k, ok)
    \/ RemFinish
    \/ \E k \in Keys, u \in UserIds, ok \in BOOLEAN : OrphanSrem(k, u, ok)

\* Requests to a handler with CRON_SECRET configured: with a wrong or missing
\* secret at every instant, with and without the override flag; with every
\* environment and with the right and the wrong secret at a few instants.
NextAuth ==
    \/ \E force \in BOOLEAN, t \in SchedInstants :
            RemInvoke("ok", "mismatch", force, t, TRUE)
    \/ \E env \in {"ok", "notoken", "nokv"}, auth \in {"match", "mismatch"},
          force \in BOOLEAN, t \in Instants, ok \in BOOLEAN :
            RemInvoke(env, auth, force, t, ok)
    \/ \E o \in SendOutcomes : RemSend(o)
    \/ RemPause
    \/ \E k \in Keys, ok \in BOOLEAN : RemSrem(k, ok)
    \/ RemFinish
    \/ \E k \in Keys, u \in UserIds, ok \in BOOLEAN : OrphanSrem(k, u, ok)

\* Subscribers of the class reminder only.
InitSched == InitStored /\ kv[SUBS_ATTENDANCE_KEY] = {}

SpecSched == InitSched /\ [][NextSched]_vars

SpecAuth == InitSched /\ [][NextAuth]_vars

\* ------------------------------------------- polling bot (index.js, db.js)
\* The users table: user_id is the primary key, blocked defaults to 0.
NewRow(userId) == [user_id |-> userId, blocked |-> 0]

HasRow(table, userId) == \E n \in 1..Len(table) : table[n].user_id = userId

\* INSERT without OR IGNORE: the row is appended whether or not the key exists.
AddUser_PlainInsert(table, userId) == Append(table, NewRow(userId))

\* INSERT OR IGNORE INTO users (user_id): a row whose key is already in the
\* table is left as it is, blocked flag included.
AddUser(table, userId) ==
    IF HasRow(table, userId) THEN table ELSE Append(table, NewRow(userId))

\* SELECT user_id FROM users WHERE blocked = 0.
ListActiveUsers(table) ==
    LET active(row) == row.blocked = 0
        rows == SelectSeq(table, active)
    IN [n \in 1..Len(rows) |-> rows[n].user_id]

\* UPDATE users SET blocked = 1 WHERE user_id = ?.
MarkBlocked(table, userId) ==
    [n \in 1..Len(table) |->
        IF table[n].user_id = userId THEN [table[n] EXCEPT !.blocked = 1]
        ELSE table[n]]

\* bot.start: the sender is inserted and the greeting is sent, in whatever chat
\* the command arrived.
PollStart(chatType, uid, replyOk) ==
    /\ users' = AddUser(users, uid)
    /\ pout' = [op |-> "start", chat |-> chatType, user |-> uid,
                replied |-> replyOk]
    /\ UNCHANGED poll
    /\ UNCHANGED notPoll

\* bot.help: the help text is sent.
PollHelp(chatType, uid, replyOk) ==
    /\ pout' = [op |-> "help", chat |-> chatType, user |-> uid,
                replied |-> replyOk]
    /\ UNCHANGED <<users, poll>>
    /\ UNCHANGED notPoll

\* bot.on('message'): a group message with the keyword reads the active users
\* and starts the loop of notifyAllUsers.
PollMessage(chatType, msg) ==
    /\ poll.pc \in {"idle", "done"}
    /\ poll' = IF Triggers(chatType, msg)
               THEN [PollIdle EXCEPT !.pc = "loop",
                                     !.users = ListActiveUsers(users),
                                     !.text = ExtractText(msg),
                                     !.excerpt = PollExcerpt(ExtractText(msg))]
               ELSE PollIdle
    /\ UNCHANGED <<users, pout>>
    /\ UNCHANGED notPoll

\* One sendMessage of the loop settles.  The 60 ms timer follows a delivered
\* message only; a 403 marks the row blocked before the loop goes on.
PollSend(outcome) ==
    LET uid == poll.users[poll.i]
        p1 == [poll EXCEPT !.att = Append(@, uid)]
    IN
    /\ poll.pc = "loop"
    /\ poll.i <= Len(poll.users)
    /\ users' = IF IsBlocked(outcome) THEN MarkBlocked(users, uid) ELSE users
    /\ poll' = IF outcome = "ok" THEN [p1 EXCEPT !.pc = "pause"]
               ELSE [p1 EXCEPT !.i = AfterCatch(poll.users, poll.i),
                               !.paced = poll.i = Len(poll.users)]
    /\ UNCHANGED pout
    /\ UNCHANGED notPoll

PollPause ==
    /\ poll.pc = "pause"
    /\ poll' = [poll EXCEPT !.pc = "loop",
                            !.i = NextRecipient(poll.users, poll.i)]
    /\ UNCHANGED <<users, pout>>
    /\ UNCHANGED notPoll

PollFinish ==
    /\ poll.pc = "loop"
    /\ poll.i > Len(poll.users)
    /\ poll' = [poll EXCEPT !.pc = "done"]
    /\ UNCHANGED <<users, pout>>
    /\ UNCHANGED notPoll

PollNext ==
    \/ \E t \in ChatTypes, u \in UserIds, r \in BOOLEAN : PollStart(t, u, r)
    \/ \E t \in ChatTypes, u \in UserIds, r \in BOOLEAN : PollHelp(t, u, r)
    \/ \E t \in ChatTypes, m \in SampleMessages : PollMessage(t, m)
    \/ \E o \in SendOutcomes : PollSend(o)
    \/ PollPause
    \/ PollFinish

SpecPoll == Init /\ [][PollNext]_vars

\* Both bots fed long trigger texts from a group, with nobody subscribed.
NextExcerpt ==
    \/ \E m \in LongMessages, ok \in BOOLEAN : KwMessage("group", m, ok)
    \/ KwFinish
    \/ \E m \in LongMessages : PollMessage("supergroup", m)
    \/ PollFinish

SpecExcerpt == Init /\ [][NextExcerpt]_vars

\* ------------------------------------------------- helpers, call by call
\* One call of each link resolver on the same chat and message id.
LinkCall(chat, messageId) ==
    /\ last' = [op |-> "buildLink", chat |-> chat, messageId |-> messageId,
                link |-> BuildLink(chat, messageId),
                pollLink |-> BuildMessageLink(chat, messageId)]
    /\ UNCHANGED <<kv, orphans, fan, cmd, gone, users, poll, pout, bot>>

NextLink == \E c \in Chats, m \in MessageIds : LinkCall(c, m)

\* One evaluation of the text part of the message guard.
DetectCall(msg) ==
    /\ last' = [op |-> "detect", msg |-> msg, text |-> ExtractText(msg),
                hit |-> Detects(msg)]
    /\ UNCHANGED <<kv, orphans, fan, cmd, gone, users, poll, pout, bot>>

NextDetect == \E m \in WordMessages : DetectCall(m)

SpecDetect == Init /\ [][NextDetect]_vars

SpecLink == Init /\ [][NextLink]_vars

\* -------------------------------------------------- the stores, call by call
\* One call of the KV adapter's setSub, made directly.
StoreSetSub(key, uid, enabled, ok) ==
    /\ kv' = SetSub(kv, key, uid, enabled, ok)
    /\ last' = [op |-> "setSub", key |-> key, user |-> uid,
                enabled |-> enabled, ok |-> ok,
                present |-> StringOf(uid) \in kv[key]]
    /\ UNCHANGED <<orphans, fan, cmd, gone, users, poll, pout, bot>>

\* One call of addUser, made directly.
StoreAddUser(uid) ==
    /\ users' = AddUser(users, uid)
    /\ last' = [op |-> "addUser", key |-> "users", user |-> uid,
                enabled |-> TRUE, ok |-> TRUE,
                present |-> HasRow(users, uid)]
    /\ UNCHANGED <<kv, orphans, fan, cmd, gone, poll, pout, bot>>

\* One call of markBlocked, made directly.
StoreMarkBlocked(uid) ==
    /\ users' = MarkBlocked(users, uid)
    /\ last' = [op |-> "markBlocked", key |-> "users", user |-> uid,
                enabled |-> FALSE, ok |-> TRUE,
                present |-> HasRow(users, uid)]
    /\ UNCHANGED <<kv, orphans, fan, cmd, gone, poll, pout, bot>>

StoreNext ==
    \/ \E k \in Keys, u \in UserIds, e \in BOOLEAN, ok \in BOOLEAN :
            StoreSetSub(k, u, e, ok)
    \/ \E u \in UserIds : StoreAddUser(u)
    \/ \E u \in UserIds : StoreMarkBlocked(u)

SpecStore == Init /\ [][StoreNext]_vars

\* ==================================================================== claims
Active == {"loop", "pause", "removing"}
LoopOver == fan.pc = "loop" /\ fan.i > Len(fan.userIds)
Member(store, key, uid) == StringOf(uid) \in store[key]
Absent(store, uid) == \A k \in Keys : ~Member(store, k, uid)

\* C1: a fan-out over the ids read from the store attempts userIds[1],
\* userIds[2], ... in turn, once each, whatever the outcomes, the ids are
\* pairwise distinct, and the loop is over only when every id was attempted.
C1_EveryRecipientOnce ==
    fan.pc \in Active =>
        /\ Len(fan.att) <= Len(fan.userIds)
        /\ \A j \in 1..Len(fan.att) : fan.att[j] = fan.userIds[j]
        /\ \A j, k \in 1..Len(fan.userIds) :
                j # k => fan.userIds[j] # fan.userIds[k]
        /\ LoopOver => fan.att = fan.userIds

\* C1 witness: a reminder fan-out over two or more ids has reached the end of
\* its list although every send failed.
C1_Witness ==
    /\ LoopOver
    /\ fan.kind = "reminder"
    /\ Len(fan.userIds) >= 2
    /\ fan.counts.failed = Len(fan.userIds)
    /\ fan.counts.removed >= 1

\* C3: a step of a fan-out never adds a member to a list, and the only member
\* it removes is the recipient whose send has just failed with code 403 (or
\* the recipient of a remove that such a failure left in flight).
C3_OnlyBlockedRemoved ==
    [][ /\ \A k \in Keys : kv'[k] \subseteq kv[k]
        /\ \A k \in Keys : \A m \in kv[k] \ kv'[k] :
              \/ /\ fan.pc = "removing"
                 /\ fan.code = "403"
                 /\ m = StringOf(fan.userIds[fan.i])
              \/ \E uid \in UserIds : <<k, uid>> \in orphans /\ m = StringOf(uid)
        /\ orphans' \ orphans # {} => fan.pc = "removing" /\ fan.code = "403"
      ]_vars

\* C3 witness: at the end of a reminder fan-out one recipient was removed
\* after a 403 while a recipient whose send failed otherwise is still a member.
C3_Witness ==
    /\ LoopOver
    /\ fan.kind = "reminder"
    /\ fan.counts.removed = 1
    /\ fan.counts.failed = 2
    /\ \E j \in 1..Len(fan.userIds) : Member(kv, SUBS_CLASS_KEY, fan.userIds[j])
    /\ \E j \in 1..Len(fan.userIds) : Absent(kv, fan.userIds[j])

C5_PauseBetweenAttempts ==
    [][ Len(fan'.att) = Len(fan.att) + 1 /\ Len(fan.att) >= 1 => fan.paced ]_vars

\* C9 as stated: a failing store call is absorbed.  A failing list read counts
\* as an empty list and the fan-out goes on to its loop; no fan-out, keyword or
\* scheduled, ends with the store's error as its result.
C9_StoreFaultAbsorbed ==
    fan.pc = "done" => fan.res # "error_store"

\* C10: when a send fails with 403 a remove is issued on every known list;
\* when one of them fails the other is still awaited or in flight; and the
\* removal returns to the loop, which goes on with the next recipient.
C10_RemoveAttemptsAllLists ==
    [][ /\ fan.pc # "removing" /\ fan'.pc = "removing" => fan'.pending = Keys
        /\ fan.pc = "removing" =>
              \A k \in fan.pending :
                  \/ k \in fan'.pending
                  \/ <<k, fan.userIds[fan.i]>> \in orphans'
                  \/ ~Member(kv', k, fan.userIds[fan.i])
                  \/ /\ kv'[k] = kv[k]
                     /\ \A k2 \in fan.pending \ {k} :
                           k2 \in fan'.pending
                             \/ <<k2, fan.userIds[fan.i]>> \in orphans'
        /\ fan.pc = "removing" /\ fan'.pc # "removing" =>
              /\ fan'.pc = "loop"
              /\ fan'.i = fan.i + 1
              /\ fan'.userIds = fan.userIds
      ]_vars

\* C10 witness: a removal has returned, its remove on the attendance list
\* failed (the recipient is still a member) and its remove on the class list
\* took effect.
C10_Witness ==
    /\ fan.pc = "loop"
    /\ fan.i > 1
    /\ fan.kind = "reminder"
    /\ fan.counts.removed = 1
    /\ fan.counts.failed = 1
    /\ fan.i = 2
    /\ orphans = {}
    /\ Member(kv, SUBS_ATTENDANCE_KEY, fan.userIds[1])
    /\ ~Member(kv, SUBS_CLASS_KEY, fan.userIds[1])

C7_PresetSetsMembership ==
    [][ \A s \in Slots :
          LET c == cmd[s] IN
          /\ c.pc \notin Quiescent /\ cmd'[s].pc = "done" /\ cmd'[s].clean =>
                /\ c.op = "preset:attendance" =>
                      /\ Member(kv', SUBS_ATTENDANCE_KEY, c.user)
                      /\ ~Member(kv', SUBS_CLASS_KEY, c.user)
                /\ c.op = "preset:both" =>
                      /\ Member(kv', SUBS_ATTENDANCE_KEY, c.user)
                      /\ Member(kv', SUBS_CLASS_KEY, c.user)
                /\ c.op \in {"preset:none", "stop"} => Absent(kv', c.user)
          /\ c.pc = "setting" /\ cmd'[s].pending # c.pending =>
                \A k \in Keys : kv'[k] \ {StringOf(c.user)} = kv[k] \ {StringOf(c.user)}
      ]_vars

\* C7 witness: a preset:attendance has completed undisturbed, its menu was
\* delivered, and a user is subscribed to attendance only while another fan-out
\* or handler is idle.
C7_Witness ==
    /\ cmd["w1"].pc = "done"
    /\ cmd["w1"].op = "preset:attendance"
    /\ cmd["w1"].clean
    /\ cmd["w1"].out = "edit"
    /\ \E u \in UserIds :
          Member(kv, SUBS_ATTENDANCE_KEY, u) /\ ~Member(kv, SUBS_CLASS_KEY, u)

\* C6 (as stated) Any command that arrives in a group chat is a no-op: it
\* changes no subscription list and no user row and sends no reply.  Webhook
\* bot: a command from a non-private chat completes with nothing sent and the
\* sets as they were.  Polling bot: a /start from a group leaves the users
\* table as it was and sends no greeting.
C6_WebhookGroupCommandNoOp ==
    [][\A s \in Slots :
         (cmd[s].pc = "idle" /\ cmd'[s].pc # "idle"
              /\ cmd'[s].chat \in GroupTypes)
         => (kv' = kv /\ cmd'[s].pc = "done" /\ cmd'[s].out = "none")]_vars

C6_GroupCommandsAreNoOps ==
    [][/\ \A s \in Slots :
            (cmd[s].pc = "idle" /\ cmd'[s].pc # "idle"
                 /\ cmd'[s].chat \in GroupTypes)
            => (kv' = kv /\ cmd'[s].pc = "done" /\ cmd'[s].out = "none")
       /\ (pout' # pout /\ pout'.op = "start" /\ pout'.chat \in GroupTypes)
            => (users' = users /\ ~pout'.replied)]_vars

\* The case of C6: a command from a group chat was handled by the webhook bot.
C6_WebhookWitness ==
    \E s \in Slots : cmd[s].pc = "done" /\ cmd[s].chat \in GroupTypes
                     /\ cmd[s].op = "start"

NoDuplicates(seq) ==
    \A m \in 1..Len(seq), n \in 1..Len(seq) : seq[m] = seq[n] => m = n

\* C8 Store adds and removes are idempotent.  Adding a user who is already in
\* a list (a KV set, the users table) and removing one who is not both leave
\* the store as it was, and after any sequence of calls a user is in a list at
\* most once: every reading of a set yields each member once, and no two rows
\* of the users table carry the same user_id.
C8_AddRemoveIdempotent ==
    [][/\ (last'.op = "setSub" /\ last'.enabled /\ last'.present) => kv' = kv
       /\ (last'.op = "setSub" /\ ~last'.enabled /\ ~last'.present)
            => kv' = kv
       /\ (last'.op = "addUser" /\ last'.present) => users' = users
       /\ (last'.op = "markBlocked" /\ ~last'.present) => users' = users
       /\ \A k \in Keys : \A l \in Smembers(kv', k) :
            NoDuplicates(l) /\ Len(l) = Cardinality(kv'[k])
       /\ NoDuplicates([n \in 1..Len(users') |-> users'[n].user_id])
       /\ NoDuplicates(ListActiveUsers(users'))]_vars

\* The case of C8: both users are stored in both kinds of list, and the last
\* call added one of them a second time and went through.
C8_Witness ==
    /\ last.op \in {"setSub", "addUser"}
    /\ last.enabled /\ last.present /\ last.ok
    /\ Len(users) = NUsers
    /\ \E k \in Keys : Cardinality(kv[k]) = NUsers

\* The GMT+5 weekday (0 = Sunday) and minute of the day of a UTC instant.
LocalDay(t) == ((t + 5 * 60) \div MinutesPerDay) % 7
LocalMinute(t) == (t + 5 * 60) % MinutesPerDay

\* 18:24, 18:25 and 18:26.
Window == {18 * 60 + 24, 18 * 60 + 25, 18 * 60 + 26}

\* The invocation got past the token, the KV variables and the secret.
ReachedSchedule ==
    /\ fan.kind = "reminder"
    /\ fan.pc # "idle"
    /\ fan.res \notin {"error_token", "missingkv", "unauthorized"}

\* The invocation went on to read the subscriber list.
RanReminder ==
    \/ fan.pc \in Active
    \/ fan.pc = "done" /\ fan.res \in {"executed", "error_store"}

\* C11: on Monday to Thursday (GMT+5) and without the override flag, the
\* scheduled handler goes on to the reminder fan-out exactly at 18:24, 18:25
\* and 18:26 and answers skipped 'not scheduled time' at every other minute,
\* having sent nothing; with the override flag it goes on at any time; the
\* class name of the fan-out is the one of that weekday.
C11_ScheduleWindow ==
    ReachedSchedule /\ LocalDay(fan.at) \in 1..4 =>
        /\ fan.force => RanReminder
        /\ ~fan.force => (RanReminder <=> LocalMinute(fan.at) \in Window)
        /\ ~fan.force /\ LocalMinute(fan.at) \notin Window =>
              /\ fan.pc = "done"
              /\ fan.res = "wrongtime"
              /\ fan.counts.sent = 0
        /\ fan.pc \in Active \/ fan.res = "executed" =>
              fan.className = CLASS_SCHEDULE_BY_GMT5_DAY[LocalDay(fan.at)]

\* C11 witness: a reminder invoked on Thursday at 18:24 without the override
\* flag was executed and delivered a message.
C11_Witness ==
    /\ fan.kind = "reminder"
    /\ fan.pc = "done"
    /\ fan.res = "executed"
    /\ ~fan.force
    /\ LocalDay(fan.at) = 4
    /\ LocalMinute(fan.at) = 18 * 60 + 24
    /\ fan.className = "Website Design"
    /\ fan.counts.sent >= 1

\* C12: on Friday, Saturday and Sunday (GMT+5) the scheduled handler answers
\* skipped 'no class today' at every time of day, with and without the
\* override flag, without reading the list (no recipients) or sending.
C12_NoClassAlwaysSkips ==
    ReachedSchedule /\ LocalDay(fan.at) \notin 1..4 =>
        /\ fan.pc = "done"
        /\ fan.res = "noclass"
        /\ fan.userIds = <<>>
        /\ fan.att = <<>>
        /\ fan.counts.sent = 0

\* C12 witness: an invocation on Saturday at 18:25 with the override flag was
\* skipped while the class list has subscribers.
C12_Witness ==
    /\ fan.kind = "reminder"
    /\ fan.pc = "done"
    /\ fan.res = "noclass"
    /\ fan.force
    /\ LocalDay(fan.at) = 6
    /\ LocalMinute(fan.at) = 18 * 60 + 25
    /\ kv[SUBS_CLASS_KEY] # {}

\* The responses of the scheduled handler.
ReminderResponses ==
    {"noclass", "wrongtime", "executed", "unauthorized", "missingkv",
     "error_token", "error_store"}

\* C13: an invocation of the scheduled handler writes no response while it is
\* in progress and has written exactly one when it ends: one of the skipped,
\* executed, unauthorized and error responses, with status 200 (401 for a
\* wrong secret).  A missing token and a rejected list read end with the error
\* response, a failed send is counted in the executed response; no fault
\* leaves the handler.
C13_OneStructuredResponse ==
    fan.kind = "reminder" =>
        /\ fan.pc \in Active => fan.responses = 0
        /\ fan.pc = "done" =>
              /\ fan.responses = 1
              /\ fan.res \in ReminderResponses
              /\ fan.status = IF fan.res = "unauthorized" THEN 401 ELSE 200
              /\ fan.res # "executed" => fan.counts = FanIdle.counts
              /\ fan.counts.removed <= fan.counts.failed

\* C13 witness: an invocation whose list read was rejected has ended with one
\* error response of status 200.
C13_Witness ==
    /\ fan.kind = "reminder"
    /\ fan.pc = "done"
    /\ fan.res = "error_store"
    /\ fan.responses = 1
    /\ fan.status = 200

\* A second case of C13: every send failed and the invocation ended with the
\* executed response.
C13_WitnessCounted ==
    /\ fan.kind = "reminder"
    /\ fan.pc = "done"
    /\ fan.res = "executed"
    /\ fan.counts.sent = 0
    /\ fan.counts.failed = NUsers

\* A webhook invocation in progress: a command handler or the keyword fan-out.
HookBusy(s) == cmd[s].pc \in {"reading", "setting"}
KwBusy == fan.kind = "keyword" /\ fan.pc \in Active

\* C14 (safety): a webhook invocation has written no response while it is in
\* progress and exactly one, of status 200, when it has ended: for a request
\* that is not a POST, a body that is not JSON, a missing bot token, an update
\* whose handler raised, a command and a keyword message.
C14_OneResponse200 ==
    /\ \A s \in Slots :
          /\ HookBusy(s) => cmd[s].responses = 0
          /\ cmd[s].pc = "done" => cmd[s].responses = 1 /\ cmd[s].status = 200
    /\ KwBusy => fan.responses = 0
    /\ fan.kind = "keyword" /\ fan.pc = "done" =>
          fan.responses = 1 /\ fan.status = 200

\* C14: every webhook invocation eventually produces exactly one response, of
\* status 200 (C14_OneResponse200 always holds, and an invocation in progress
\* leads to one that has ended).
C14_AlwaysAnswers200 ==
    /\ []C14_OneResponse200
    /\ HookBusy("w1") ~> cmd["w1"].pc = "done"
    /\ KwBusy ~> (fan.kind = "keyword" /\ fan.pc = "done")

\* C14 witness: a preset whose menu could be delivered neither by edit nor by
\* reply has raised, and the invocation has ended with one response of status 200.
C14_Witness ==
    /\ cmd["w1"].pc = "done"
    /\ cmd["w1"].op \in Presets
    /\ cmd["w1"].out = "raised"
    /\ cmd["w1"].responses = 1
    /\ cmd["w1"].status = 200

\* Further cases of C14: a POST without bot token, and a body that is not JSON.
C14_WitnessNoToken ==
    cmd["w1"].pc = "done" /\ cmd["w1"].op = "notoken" /\ cmd["w1"].status = 200

C14_WitnessEmptyUpdate ==
    cmd["w1"].pc = "done" /\ cmd["w1"].op = "emptyupdate"
        /\ cmd["w1"].status = 200

\* C15: showMenu after a preset first edits the existing message; it replies
\* if and only if the edit was rejected, and then a successful reply delivers
\* the menu and nothing is raised; the menu is delivered by at most one of
\* edit and reply, exactly one when either succeeds, and an error is raised
\* only when the reply failed too.  A command's menu is delivered by reply.
C15_EditThenReplyFallback ==
    \A s \in Slots :
        LET c == cmd[s] IN
        c.pc = "done" /\ c.menu # NoMenu =>
            /\ c.op \in Presets => c.edit \in {"ok", "rejected"}
            /\ c.op \notin Presets => c.edit = "none" /\ c.reply # "none"
            /\ c.reply # "none" <=> c.edit # "ok"
            /\ c.out = "edit" <=> c.edit = "ok"
            /\ c.out = "reply" <=> c.reply = "ok"
            /\ c.out = "raised" <=> c.reply = "failed"
            /\ ~(c.edit = "ok" /\ c.reply = "ok")

\* C15 witness: a preset's edit was rejected and the menu went out by reply.
C15_Witness ==
    /\ cmd["w1"].pc = "done"
    /\ cmd["w1"].op = "preset:both"
    /\ cmd["w1"].edit = "rejected"
    /\ cmd["w1"].reply = "ok"
    /\ cmd["w1"].out = "reply"
    /\ cmd["w1"].menu.marks = {"preset:both"}

\* The option that matches a pair of status lines, if any.
MarksFor(text) ==
    {o \in Presets :
        \/ o = "preset:attendance" /\ text = [att |-> "ON", cls |-> "OFF"]
        \/ o = "preset:both" /\ text = [att |-> "ON", cls |-> "ON"]
        \/ o = "preset:none" /\ text = [att |-> "OFF", cls |-> "OFF"]}

\* C16: in every rendered menu the marked options are the one option that
\* matches the status lines of the text (none for attendance OFF, class ON);
\* and when the handler's reads did not fail and nobody else wrote the user's
\* membership meanwhile, the status lines are the user's membership in the
\* store when the menu is rendered.
C16_MarksMatchSettings ==
    [][\A s \in Slots :
          LET c == cmd[s]
              d == cmd'[s]
          IN
          c.pc = "reading" /\ d.pc = "done" =>
              /\ d.menu # NoMenu
              /\ d.menu.text.att \in {"ON", "OFF"}
              /\ d.menu.text.cls \in {"ON", "OFF"}
              /\ d.menu.marks = MarksFor(d.menu.text)
              /\ Cardinality(d.menu.marks) <= 1
              /\ d.clean =>
                    /\ d.menu.text.att = "ON"
                          <=> Member(kv', SUBS_ATTENDANCE_KEY, c.user)
                    /\ d.menu.text.cls = "ON"
                          <=> Member(kv', SUBS_CLASS_KEY, c.user)]_vars

\* C16 witness: a menu delivered for a user in the attendance list only
\* carries the mark on 'Attendance reminders'.
C16_Witness ==
    /\ cmd["w1"].pc = "done"
    /\ cmd["w1"].op = "settings"
    /\ cmd["w1"].out = "reply"
    /\ cmd["w1"].menu.text = [att |-> "ON", cls |-> "OFF"]
    /\ cmd["w1"].menu.marks = {"preset:attendance"}

\* A second case of C16: class reminders only, and no option is marked.
C16_WitnessNoMark ==
    /\ cmd["w1"].pc = "done"
    /\ cmd["w1"].menu.text = [att |-> "OFF", cls |-> "ON"]
    /\ cmd["w1"].menu.marks = {}

\* What C17 says the excerpt of a trigger text is.
ExpectedExcerpt(text) ==
    IF Len(Normalize(text)) <= 160 THEN Normalize(text)
    ELSE SubSeq(Normalize(text), 1, 157) \o <<Ellipsis>>

\* C17 (as stated): the excerpt of a trigger text is its whitespace-normalized
\* form when that has at most 160 characters, and its first 157 characters
\* followed by one ellipsis (158 characters) otherwise, in the webhook bot and
\* in the polling bot.
C17_ExcerptTruncation ==
    /\ fan.kind = "keyword" /\ fan.pc \in Active =>
          fan.excerpt = ExpectedExcerpt(fan.text)
    /\ poll.pc # "idle" => poll.excerpt = ExpectedExcerpt(poll.text)

\* The part of C17 that is about the polling bot of index.js.
C17_PollExcerptTruncation ==
    poll.pc # "idle" =>
        /\ poll.excerpt = ExpectedExcerpt(poll.text)
        /\ Len(Normalize(poll.text)) > 160 => Len(poll.excerpt) = 158

\* A case of C17 in the polling bot: a text of 200 characters has an excerpt
\* of 158 characters that ends with the ellipsis.
C17_PollWitness ==
    /\ poll.pc = "loop"
    /\ Len(poll.text) = 200
    /\ Len(poll.excerpt) = 158
    /\ poll.excerpt[158] = Ellipsis

\* n has the decimal form 100 followed by k more digits.
HasPrefix100(n, k) == n >= 0 /\ n \div (10 ^ k) = 100

\* The last k decimal digits of n, leading zeros included.
LastDigits(n, k) ==
    [j \in 1..k |-> DigitChars[((n \div (10 ^ (k - j))) % 10) + 1]]

\* What C18 says the link is.
ExpectedLink(chat, messageId) ==
    IF chat.present /\ chat.username # ""
    THEN << "t.me", chat.username, CharsOf(messageId) >>
    ELSE IF chat.present /\ \E k \in 0..6 : HasPrefix100(-chat.id, k)
    THEN << "t.me", "c",
            LastDigits(-chat.id, CHOOSE k \in 0..6 : HasPrefix100(-chat.id, k)),
            CharsOf(messageId) >>
    ELSE NoLink

\* C18: for every chat and message id both link resolvers return the public
\* permalink t.me/<handle>/<messageId> when the chat has a handle, whatever
\* its id; otherwise t.me/c/<digits after -100>/<messageId> when the decimal
\* form of the id starts with -100; otherwise null, also for a missing chat.
\* They return a value for every input.
C18_LinkResolver ==
    last.op = "buildLink" =>
        /\ last.link = ExpectedLink(last.chat, last.messageId)
        /\ last.pollLink = ExpectedLink(last.chat, last.messageId)

\* C18 witness: a chat without handle and with id -1000123 resolves to
\* t.me/c/0123/42 in both resolvers.
C18_Witness ==
    /\ last.op = "buildLink"
    /\ last.chat = [present |-> TRUE, id |-> -1000123, username |-> ""]
    /\ last.link = << "t.me", "c", << "0", "1", "2", "3" >>, << "4", "2" >> >>
    /\ last.pollLink = last.link

\* Further cases of C18: a chat with a handle and an id that starts with -100,
\* and a missing chat.
C18_WitnessPublic ==
    /\ last.op = "buildLink"
    /\ last.chat = [present |-> TRUE, id |-> -100123, username |-> "mygroup"]
    /\ last.link = << "t.me", "mygroup", << "1" >> >>

C18_WitnessNoChat ==
    last.op = "buildLink" /\ last.chat = NoChat /\ last.link = NoLink

\* The words of a text: its maximal runs of word characters, in lower case.
WordsOf(text) ==
    {[k \in 1..(b - a + 1) |-> Lower(text[a + k - 1])] :
        <<a, b>> \in {r \in (1..Len(text)) \X (1..Len(text)) :
            /\ r[1] <= r[2]
            /\ \A k \in r[1]..r[2] : IsWordChar(text[k])
            /\ r[1] = 1 \/ ~IsWordChar(text[r[1] - 1])
            /\ r[2] = Len(text) \/ ~IsWordChar(text[r[2] + 1])}}

\* The field the detector reads: the text, the caption when there is no text.
FieldOf(msg) == IF msg.text # <<>> THEN msg.text ELSE msg.caption

\* C19: the keyword detector answers true exactly when 'attendance', in any
\* letter case, is one of the words of the text (or of the caption when there
\* is no text): bounded on each side by an edge or a non-word character.  It
\* answers false for a message with neither text nor caption and when the
\* letters occur only inside a longer word.
C19_DetectsWholeWord ==
    last.op = "detect" =>
        /\ last.hit <=> KeywordWord \in WordsOf(FieldOf(last.msg))
        /\ FieldOf(last.msg) = <<>> => ~last.hit
        /\ Len(last.text) <= Len(FieldOf(last.msg))

\* C19 witness: '!ATTENDANCE. ' is detected.
C19_Witness ==
    /\ last.op = "detect"
    /\ last.hit
    /\ last.msg.text = << "!", "A", "T", "T", "E", "N", "D", "A", "N", "C", "E",
                          ".", " " >>

\* Further cases of C19: 'Attendances' and a message without text and caption
\* are not detected.
C19_WitnessLongerWord ==
    /\ last.op = "detect"
    /\ ~last.hit
    /\ last.text = << "A" >> \o Tail(KeywordWord) \o << "s" >>

C19_WitnessEmpty ==
    last.op = "detect" /\ ~last.hit /\ last.msg = [text |-> <<>>, caption |-> <<>>]

\* The user ids that are members of a list of the store.
MembersOf(store, key) == {u \in UserIds : Member(store, key, u)}

\* A fan-out of the given kind is entered by this step.
Starts(kind) == fan.pc \in Quiescent /\ fan'.pc = "loop" /\ fan'.kind = kind

\* A fan-out of the given kind makes one attempt in this step.
Attempts(kind) == fan.kind = kind /\ Len(fan'.att) = Len(fan.att) + 1

\* C20, its state part: a keyword fan-out in progress or finished comes from a
\* message of a group or supergroup whose trimmed text is non-empty and
\* matches; a message of a private chat, and a message that does not match,
\* end ignored with nothing sent.
C20_StartedByGroupKeyword ==
    fan.kind = "keyword" =>
        /\ (fan.pc \in Active \/ fan.res = "notified" \/ fan.att # <<>>) =>
              fan.chat \in GroupTypes
        /\ fan.pc \in Active =>
              fan.text # <<>> /\ KeywordWord \in WordsOf(fan.text)
        /\ fan.chat = "private" =>
              fan.pc = "done" /\ fan.res = "ignored" /\ fan.att = <<>>
        /\ fan.res = "ignored" => fan.pc = "done" /\ fan.att = <<>>

\* C20: a keyword fan-out is started only by a group or supergroup message
\* whose trimmed text or caption is non-empty and matches the keyword; its
\* recipients are the members of the attendance list as read at that moment
\* (none when the read is rejected), so a user who is in the class-reminder
\* list only is not among them; every keyword attempt goes to one of these
\* recipients; a private or non-matching message causes no send; the
\* recipients of a scheduled reminder are exactly the members of the
\* class-reminder list as read, and every attempt goes to one of them.
C20_FanOutRecipients ==
    [][/\ C20_StartedByGroupKeyword'
       /\ Starts("keyword") =>
            /\ Range(fan'.userIds) \in {MembersOf(kv, SUBS_ATTENDANCE_KEY), {}}
            /\ \A u \in MembersOf(kv, SUBS_CLASS_KEY)
                        \ MembersOf(kv, SUBS_ATTENDANCE_KEY) :
                   u \notin Range(fan'.userIds)
       /\ Starts("reminder") =>
            Range(fan'.userIds) = MembersOf(kv, SUBS_CLASS_KEY)
       /\ \A k \in {"keyword", "reminder"} :
            Attempts(k) =>
                /\ fan'.userIds = fan.userIds
                /\ fan'.att[Len(fan'.att)] \in Range(fan.userIds)
       /\ (fan'.kind = "keyword" /\ fan'.res = "ignored") => fan'.att = <<>>
      ]_vars

\* C20 witness: a keyword fan-out has notified an attendance subscriber while
\* another user is in the class-reminder list only.
C20_Witness ==
    /\ fan.kind = "keyword"
    /\ fan.chat = "supergroup"
    /\ fan.att # <<>>
    /\ \E u \in UserIds :
          /\ Member(kv, SUBS_CLASS_KEY, u)
          /\ ~Member(kv, SUBS_ATTENDANCE_KEY, u)
          /\ u \notin Range(fan.userIds)

\* Further cases of C20: a matching message in a private chat is ignored, and a
\* reminder has been sent to a user who is in the class-reminder list only.
C20_WitnessPrivate ==
    fan.kind = "keyword" /\ fan.chat = "private" /\ fan.res = "ignored"

C20_WitnessReminder ==
    /\ fan.kind = "reminder"
    /\ fan.att # <<>>
    /\ \E u \in Range(fan.att) : ~Member(kv, SUBS_ATTENDANCE_KEY, u)

\* C21: in the polling bot, a /start puts its sender among the active users,
\* also when the sender's row was marked blocked after a 403, and the next
\* keyword fan-out reads exactly the active users, so the sender is among its
\* recipients.
C21_StartRestoresDelivery ==
    [][/\ (pout' # pout /\ pout'.op = "start") =>
              pout'.user \in Range(ListActiveUsers(users'))
       /\ (poll.pc \in {"idle", "done"} /\ poll'.pc = "loop") =>
              poll'.users = ListActiveUsers(users)
      ]_vars

\* C22: every menu the webhook bot renders carries the add-to-group link built
\* from the bot's username, never the bare link, also when the getMe call of
\* initBot has not settled or has failed when the update is handled.
C22_MenuLinkHasUsername ==
    \A s \in Slots :
        cmd[s].menu # NoMenu =>
            cmd[s].menu.url = << "t.me", BotName, "startgroup=true" >>

\* C23: in every reachable state of the set-based store, whatever the
\* interleaving of presets, /stop and fan-out removals and whichever store
\* calls fail, a member of the class-reminder list is a member of the
\* attendance list, and every rendered menu has exactly one option marked.
C23_ClassImpliesAttendance ==
    /\ \A u \in UserIds :
          Member(kv, SUBS_CLASS_KEY, u) => Member(kv, SUBS_ATTENDANCE_KEY, u)
    /\ \A s \in Slots :
          cmd[s].menu # NoMenu => Cardinality(cmd[s].menu.marks) = 1

\* The opt-out of a user has completed: no command is in progress and the
\* user is in neither list.
OptedOut(uid) == (\A s \in Slots : cmd[s].pc \in Quiescent) /\ Absent(kv, uid)

\* C24: once a user's opt-out (/stop or preset:none) has completed, no
\* fan-out makes a send attempt to that user until the user opts in again,
\* also a fan-out that read the list before the opt-out and is still
\* iterating when it completes.
C24_NoSendAfterOptOut ==
    [][\A k \in {"keyword", "reminder"} :
          Attempts(k) => ~OptedOut(fan'.att[Len(fan'.att)])]_vars

\* The 401 response, with nothing read, sent or removed.
Unauthorized401 ==
    [FanIdle EXCEPT !.pc = "done", !.kind = "reminder", !.res = "unauthorized",
                    !.status = 401, !.responses = 1, !.auth = "mismatch"]

\* What a request with a wrong or missing secret leaves behind, apart from the
\* inputs the model records with it.
Refused(f) == [f EXCEPT !.at = 0, !.force = FALSE, !.env = "none"] = Unauthorized401

\* This step handles a request whose secret is missing or wrong.
HandlesMismatch == fan' # fan /\ fan'.kind = "reminder" /\ fan'.auth = "mismatch"

\* C25 as stated: with a cron secret configured and a request whose secret is
\* missing or different, the scheduled handler answers unauthorized, reads no
\* list, sends nothing and removes nobody, at every time and weekday and with
\* the override flag, and the result is the same whatever the time, the
\* weekday and the lists.
C25_UnauthorizedAlways ==
    [][HandlesMismatch =>
          /\ Refused(fan')
          /\ kv' = kv /\ orphans' = orphans /\ gone' = gone
      ]_vars

\* C25, with the environment complete: when BOT_TOKEN and the two KV
\* variables are set, a request whose secret is missing or different is
\* answered 401 unauthorized with no list read, nothing sent and nobody
\* removed, whatever the time, the weekday, the override flag and the lists.
\* When one of the variables is unset the handler answers for that before it
\* looks at the secret; it still reads, sends and removes nothing.
C25_UnauthorizedWhenConfigured ==
    [][HandlesMismatch =>
          /\ fan'.env = "ok" => Refused(fan')
          /\ fan'.pc = "done" /\ fan'.userIds = <<>> /\ fan'.att = <<>>
          /\ fan'.res \in {"unauthorized", "error_token", "missingkv"}
          /\ kv' = kv /\ orphans' = orphans /\ gone' = gone
      ]_vars

\* C25 witness: a forced request with a wrong secret at the scheduled minute
\* of a Monday, with subscribers in the class list, was answered 401.
C25_Witness ==
    /\ fan.auth = "mismatch"
    /\ fan.env = "ok"
    /\ fan.force
    /\ fan.at = AtGmt5(1, 18, 25)
    /\ fan.res = "unauthorized"
    /\ kv[SUBS_CLASS_KEY] # {}

====
